---- MODULE Spec2Model ----
(***************************************************************************)
(* The debug-session driver of examples/rust/debug_with_dbg.rs as a state  *)
(* machine: main / run sequence the bootstrap steps, the retry executor,   *)
(* the two wait loops and close_session over send_socket_command.  The     *)
(* daemon, the compiler, the CLI and the filesystem are the environment:   *)
(* every outcome the code distinguishes is drawn nondeterministically.     *)
(***************************************************************************)
EXTENDS Integers, Sequences, FiniteSets, TLC

\* Program constants (debug_with_dbg.rs:14, :16).
COMMAND_RETRY_ATTEMPTS == 3
PAUSE_WAIT_POLLS == 60

\* Bounds of the model.
\* How far behind the most calls possible at its position a run is still
\* counted exactly by the observer `total` (SpecBudget).
MaxSlack == 2
\* Characters of an input string of the json_escape harness (SpecEscape).
MaxPathLen == 3
\* Events of one ensure_paused call that the observer `log` keeps.
MaxLog == 5
\* Calls of cleanup_old_state made by the cleanup harness (SpecCleanup).
MaxRuns == 2

\* The four paths cleanup_old_state removes: dbg_sock, and dbg_events_db with
\* the suffixes "", "-wal", "-shm".
SockFile == "sock"
DbFiles == {"db", "db-wal", "db-shm"}
Files == {SockFile} \cup DbFiles

\* A response line, seen through the five substring tests the driver makes:
\* "ok":true, "connected":true, "status":"paused", "status":"running", "rows":[].
Resp == [ok : BOOLEAN, connected : BOOLEAN, paused : BOOLEAN,
         running : BOOLEAN, norows : BOOLEAN]

\* String::new(): the empty string carries no marker.
NoBody == [ok |-> FALSE, connected |-> FALSE, paused |-> FALSE,
           running |-> FALSE, norows |-> FALSE]

\* The Err(String) a function returns, by the message that builds it.
TransportKinds == {"TransportConnectError", "SetTimeoutError", "TransportWriteError",
                   "TransportTimeout", "TransportIOError", "ProtocolEmptyResponse"}

Ok(body) == [tag |-> "Ok", kind |-> "none", body |-> body]
Err(kind, body) == [tag |-> "Err", kind |-> kind, body |-> body]

NoError == [kind |-> "none", body |-> NoBody]
NoRet == [op |-> "none", attempt |-> 0, body |-> NoBody]

\* run()'s statements in program order; "cleanup_close" is the close_session
\* call inside cleanup_old_state, "main_err" the error branch of main.
RunSteps == <<"cleanup", "compile", "daemon", "attach", "post_attach", "frames",
              "threads", "ensure_paused", "step_over", "post_step", "trace", "close">>
RetrySteps == {"attach", "frames", "threads", "step_over", "trace"}
WaitSteps == {"post_attach", "post_step"}
LoopSteps == RetrySteps \cup WaitSteps \cup {"ensure_paused"}
CloseSteps == {"cleanup_close", "close", "main_err"}

StepOf(p) == IF p = "cleanup_close" THEN "cleanup" ELSE p
StepIndex(s) == CHOOSE i \in 1..Len(RunSteps) : RunSteps[i] = s
NextStep(s) == RunSteps[StepIndex(s) + 1]

\* The request line each retry step passes to run_command_retry.
CommandOf(p) ==
  CASE p = "attach" -> "attach-lldb"
    [] p = "frames" -> "q-frames"
    [] p = "threads" -> "q-threads"
    [] p = "step_over" -> "n"
    [] p = "trace" -> "trace"
    [] OTHER -> "status"

VARIABLES
  pc,          \* the statement of main / run being executed
  tp,          \* position inside the current call: "idle", "call" (send_socket_command
               \* entered), "connected" (stream open), "written" (request written)
  cmd,         \* the json_line of the send_socket_command call in progress
  attempt,     \* the loop variable of run_command_retry / wait_for_status / ensure_paused
  last_error,  \* run_command_retry's last_error
  ret,         \* the Ok value the last completed loop returned
  error,       \* the Err run() returned to main
  failedAt,    \* the step of run() that returned it
  exitCode,    \* the process's exit status, -1 while it runs
  fs,          \* the files of Files that exist
  locked,      \* the files remove_file cannot remove (permission, not a plain file)
  daemon,      \* a daemon accepts connections on the socket file
  srcExists,   \* config.target_src.exists()
  stream,      \* UnixStream values alive (open connections)
  \* Observers: what the current (or last) loop call has done.
  calls,       \* send_socket_command calls
  sleeps,      \* sleep(POLL_INTERVAL) calls
  pauses,      \* pause commands among calls
  xerrs,       \* send_socket_command calls that returned Err
  hits,        \* responses received that met LoopGoal
  lastResp,    \* the latest response line run_command_retry received
  log,         \* the first MaxLog events of ensure_paused ("overflow" past that)
  \* Observers of the whole run.
  touched,     \* the steps that called UnixStream::connect
  topClose,    \* main's error branch: its close_session calls, the close lines it
               \* wrote, the calls that returned Err
  doneSteps,   \* the steps of run() that returned Ok, in order
  \* The cleanup harness.
  runs,        \* cleanup_old_state calls completed
  snapshot,    \* fs when the latest cleanup_old_state call began
  \* Further observers.
  lastRead,    \* what read_line produced in the latest send_socket_command call
               \* made by run(), "none" while that call has not read
  total,       \* send_socket_command calls of the whole process (kept by SpecBudget)
  \* The json_escape harness.
  esc          \* json_escape's input, position and out, and what a JSON parser
               \* reads back from the quoted out

vars == <<pc, tp, cmd, attempt, last_error, ret, error, failedAt, exitCode, fs, locked,
          daemon, srcExists, stream, calls, sleeps, pauses, xerrs, hits, lastResp, log,
          touched, topClose, doneSteps, runs, snapshot, lastRead, total, esc>>

envVars == <<fs, locked, daemon, srcExists>>
loopObs == <<calls, sleeps, pauses, xerrs, hits, lastResp, log>>
runObs == <<touched, topClose>>
harnessVars == <<runs, snapshot>>
sideVars == <<lastRead, total, esc>>
driverVars == <<pc, tp, cmd, attempt, last_error, ret, error, failedAt, exitCode, fs, locked,
                daemon, srcExists, stream, calls, sleeps, pauses, xerrs, hits, lastResp, log,
                touched, topClose, doneSteps, runs, snapshot, lastRead, total>>

----
\* Pure functions of the driver.

response_ok(response) == response.ok

\* is_connected with either marker sufficing.
is_connected_either(response) == response_ok(response) \/ response.connected

\* wait_for_status's exit test.
is_connected(response) == response_ok(response) /\ response.connected

\* is_paused by the status marker alone.
is_paused_marker_only(status) == status.paused

\* ensure_paused's two tests.
is_paused(status) == response_ok(status) /\ status.paused
is_running(status) == response_ok(status) /\ status.running

\* run()'s test of the threads response.
no_threads(threads) == threads.norows

\* What read_line can produce: an error of some kind, or a line that is blank
\* after trim (also end of file), or a line with content.
ReadOutcomes ==
  [tag : {"err"}, kind : {"TimedOut", "WouldBlock", "Other"}, body : {NoBody}]
    \cup [tag : {"blank"}, kind : {"none"}, body : {NoBody}]
    \cup [tag : {"line"}, kind : {"none"}, body : Resp]

\* ReadResult with only TimedOut taken for a timeout.
ReadResult_TimedOutOnly(o) ==
  IF o.tag = "err"
    THEN IF o.kind = "TimedOut"
           THEN Err("TransportTimeout", NoBody)
           ELSE Err("TransportIOError", NoBody)
    ELSE IF o.tag = "blank"
      THEN Err("ProtocolEmptyResponse", NoBody)
      ELSE Ok(o.body)

\* send_socket_command's result for an outcome of read_line.
ReadResult(o) ==
  IF o.tag = "err"
    THEN IF o.kind \in {"TimedOut", "WouldBlock"}
           THEN Err("TransportTimeout", NoBody)
           ELSE Err("TransportIOError", NoBody)
    ELSE IF o.tag = "blank"
      THEN Err("ProtocolEmptyResponse", NoBody)
      ELSE Ok(o.body)

\* The json_escape harness at rest.
NoEscape == [input |-> <<>>, i |-> 0, out |-> <<>>,
             parsed |-> [ok |-> FALSE, chars |-> <<>>], phase |-> "off"]

----
\* Returning from a step of run().

ctl == <<pc, tp, cmd, attempt, last_error, ret, error, failedAt, exitCode>>

\* Fail without the early return: the Err is noted and run() goes on with its
\* next statement.
Fail_Continue(kind, body) ==
  /\ pc' = IF pc = "close" THEN "done" ELSE NextStep(StepOf(pc))
  /\ tp' = "idle"
  /\ cmd' = "none"
  /\ error' = [kind |-> kind, body |-> body]
  /\ failedAt' = StepOf(pc)
  /\ UNCHANGED <<attempt, ret, doneSteps, exitCode>>

\* `?` on an Err: run() returns it to main, whose error branch runs next.  attempt
\* keeps the value the loop ended with.
Fail(kind, body) ==
  /\ pc' = "main_err"
  /\ tp' = "idle"
  /\ cmd' = "none"
  /\ error' = [kind |-> kind, body |-> body]
  /\ failedAt' = StepOf(pc)
  /\ UNCHANGED <<attempt, ret, doneSteps, exitCode>>

\* A loop returned Ok(body): run() goes on with its next statement.
Advance(body) ==
  /\ pc' = NextStep(pc)
  /\ tp' = "idle"
  /\ cmd' = "none"
  /\ attempt' = 0
  /\ ret' = [op |-> pc, attempt |-> attempt, body |-> body]
  /\ doneSteps' = Append(doneSteps, pc)
  /\ UNCHANGED <<error, failedAt, exitCode>>

\* RunAfterRetry with the empty-rows test applied to both queries.
RunAfterRetry_BothQueries(body) ==
  IF pc \in {"frames", "threads"} /\ no_threads(body)
    THEN Fail("EmptyResult", NoBody)
    ELSE Advance(body)

\* run() lines 60-67: the threads response is tested for "rows":[]; the other
\* retry steps only apply `?`.
RunAfterRetry(body) ==
  IF pc = "threads" /\ no_threads(body)
    THEN Fail("EmptyResult", NoBody)
    ELSE Advance(body)

\* RetryHandle reporting the response before the last one: last_error is
\* assigned only when another attempt follows.
RetryHandle_StaleError(res) ==
  IF res.tag = "Err"
    THEN Fail(res.kind, res.body) /\ UNCHANGED <<last_error, sleeps>>
    ELSE IF response_ok(res.body)
      THEN RunAfterRetry(res.body) /\ last_error' = NoBody /\ UNCHANGED sleeps
      ELSE IF attempt < COMMAND_RETRY_ATTEMPTS
        THEN /\ last_error' = res.body
             /\ sleeps' = sleeps + 1
             /\ attempt' = attempt + 1
             /\ tp' = "call"
             /\ UNCHANGED <<pc, cmd, ret, doneSteps, error, failedAt, exitCode>>
        ELSE /\ Fail("RetryExhausted", last_error)
             /\ UNCHANGED <<last_error, sleeps>>

\* RetryHandle returning an ok response only from the final attempt.
RetryHandle_ConsumeAll(res) ==
  IF res.tag = "Err"
    THEN Fail(res.kind, res.body) /\ UNCHANGED <<last_error, sleeps>>
    ELSE IF response_ok(res.body) /\ attempt = COMMAND_RETRY_ATTEMPTS
      THEN RunAfterRetry(res.body) /\ last_error' = NoBody /\ UNCHANGED sleeps
      ELSE IF attempt < COMMAND_RETRY_ATTEMPTS
        THEN /\ last_error' = res.body
             /\ sleeps' = sleeps + 1
             /\ attempt' = attempt + 1
             /\ tp' = "call"
             /\ UNCHANGED <<pc, cmd, ret, doneSteps, error, failedAt, exitCode>>
        ELSE /\ last_error' = res.body
             /\ Fail("RetryExhausted", last_error')
             /\ UNCHANGED sleeps

\* RetryHandle retrying a transport error like a not-ok response.
RetryHandle_RetryOnErr(res) ==
  IF res.tag = "Ok" /\ response_ok(res.body)
    THEN RunAfterRetry(res.body) /\ last_error' = NoBody /\ UNCHANGED sleeps
    ELSE IF attempt < COMMAND_RETRY_ATTEMPTS
      THEN /\ last_error' = res.body
           /\ sleeps' = sleeps + 1
           /\ attempt' = attempt + 1
           /\ tp' = "call"
           /\ UNCHANGED <<pc, cmd, ret, doneSteps, error, failedAt, exitCode>>
      ELSE /\ last_error' = res.body
           /\ Fail("RetryExhausted", last_error')
           /\ UNCHANGED sleeps

\* RetryHandle sleeping after every not-ok response, the last one included.
RetryHandle_SleepAfterLast(res) ==
  IF res.tag = "Err"
    THEN Fail(res.kind, res.body) /\ UNCHANGED <<last_error, sleeps>>
    ELSE IF response_ok(res.body)
      THEN RunAfterRetry(res.body) /\ last_error' = NoBody /\ UNCHANGED sleeps
      ELSE /\ last_error' = res.body
           /\ sleeps' = sleeps + 1
           /\ IF attempt < COMMAND_RETRY_ATTEMPTS
                THEN /\ attempt' = attempt + 1
                     /\ tp' = "call"
                     /\ UNCHANGED <<pc, cmd, ret, doneSteps, error, failedAt, exitCode>>
                ELSE Fail("RetryExhausted", last_error')

\* RetryHandle making one attempt more than COMMAND_RETRY_ATTEMPTS.
RetryHandle_ExtraAttempt(res) ==
  IF res.tag = "Err"
    THEN Fail(res.kind, res.body) /\ UNCHANGED <<last_error, sleeps>>
    ELSE IF response_ok(res.body)
      THEN RunAfterRetry(res.body) /\ last_error' = NoBody /\ UNCHANGED sleeps
      ELSE IF attempt <= COMMAND_RETRY_ATTEMPTS
        THEN /\ last_error' = res.body
             /\ sleeps' = sleeps + 1
             /\ attempt' = attempt + 1
             /\ tp' = "call"
             /\ UNCHANGED <<pc, cmd, ret, doneSteps, error, failedAt, exitCode>>
        ELSE /\ last_error' = res.body
             /\ Fail("RetryExhausted", last_error')
             /\ UNCHANGED sleeps

\* run_command_retry, from the return of send_socket_command to the next attempt
\* or the function's return.
RetryHandle(res) ==
  IF res.tag = "Err"
    THEN Fail(res.kind, res.body) /\ UNCHANGED <<last_error, sleeps>>
    ELSE IF response_ok(res.body)
      THEN RunAfterRetry(res.body) /\ last_error' = NoBody /\ UNCHANGED sleeps
      ELSE IF attempt < COMMAND_RETRY_ATTEMPTS
        THEN /\ last_error' = res.body
             /\ sleeps' = sleeps + 1
             /\ attempt' = attempt + 1
             /\ tp' = "call"
             /\ UNCHANGED <<pc, cmd, ret, doneSteps, error, failedAt, exitCode>>
        ELSE /\ last_error' = res.body
             /\ Fail("RetryExhausted", last_error')
             /\ UNCHANGED sleeps

\* WaitHandle polling once more than PAUSE_WAIT_POLLS allows.
WaitHandle_OneMore(res) ==
  IF res.tag = "Err"
    THEN Fail(res.kind, res.body) /\ UNCHANGED <<last_error, sleeps>>
    ELSE IF is_connected(res.body)
      THEN Advance(res.body) /\ UNCHANGED <<last_error, sleeps>>
      ELSE /\ sleeps' = sleeps + 1
           /\ IF attempt <= PAUSE_WAIT_POLLS
                THEN /\ attempt' = attempt + 1
                     /\ tp' = "call"
                     /\ UNCHANGED <<pc, cmd, ret, doneSteps, error, failedAt, exitCode>>
                ELSE Fail("WaitTimeout", NoBody)
           /\ UNCHANGED last_error

\* wait_for_status, from the return of send_socket_command on.
WaitHandle(res) ==
  IF res.tag = "Err"
    THEN Fail(res.kind, res.body) /\ UNCHANGED <<last_error, sleeps>>
    ELSE IF is_connected(res.body)
      THEN Advance(res.body) /\ UNCHANGED <<last_error, sleeps>>
      ELSE /\ sleeps' = sleeps + 1
           /\ IF attempt < PAUSE_WAIT_POLLS
                THEN /\ attempt' = attempt + 1
                     /\ tp' = "call"
                     /\ UNCHANGED <<pc, cmd, ret, doneSteps, error, failedAt, exitCode>>
                ELSE Fail("WaitTimeout", NoBody)
           /\ UNCHANGED last_error

\* ensure_paused lines 256-262: the sleep that ends an iteration, then the next
\* poll or the timeout.
PausedNextPoll ==
  /\ sleeps' = sleeps + 1
  /\ IF attempt < PAUSE_WAIT_POLLS
       THEN /\ attempt' = attempt + 1
            /\ cmd' = "status"
            /\ tp' = "call"
            /\ UNCHANGED <<pc, ret, doneSteps, error, failedAt, exitCode>>
       ELSE Fail("WaitTimeout", NoBody)
  /\ UNCHANGED last_error

\* PauseCheckHandle sending the pause command after the first poll only.
PauseCheckHandle_PauseOnce(res) ==
  IF res.tag = "Err"
    THEN Fail(res.kind, res.body) /\ UNCHANGED <<last_error, sleeps>>
    ELSE IF is_paused(res.body)
      THEN Advance(NoBody) /\ UNCHANGED <<last_error, sleeps>>
      ELSE IF is_running(res.body) /\ attempt = 1
        THEN /\ cmd' = "pause"
             /\ tp' = "call"
             /\ UNCHANGED <<pc, attempt, last_error, ret, doneSteps, error, failedAt, exitCode, sleeps>>
        ELSE PausedNextPoll

\* ensure_paused after its status poll returned (lines 247-253).
PauseCheckHandle(res) ==
  IF res.tag = "Err"
    THEN Fail(res.kind, res.body) /\ UNCHANGED <<last_error, sleeps>>
    ELSE IF is_paused(res.body)
      THEN Advance(NoBody) /\ UNCHANGED <<last_error, sleeps>>
      ELSE IF is_running(res.body)
        THEN /\ cmd' = "pause"
             /\ tp' = "call"
             /\ UNCHANGED <<pc, attempt, last_error, ret, doneSteps, error, failedAt, exitCode, sleeps>>
        ELSE PausedNextPoll

\* PauseRequestHandle discarding the pause command's Err.
PauseRequestHandle_Ignore(res) == PausedNextPoll

\* PauseRequestHandle treating a pause response without the ok marker as an
\* error of the wait.
PauseRequestHandle_Gating(res) ==
  IF res.tag = "Err"
    THEN Fail(res.kind, res.body) /\ UNCHANGED <<last_error, sleeps>>
    ELSE IF ~response_ok(res.body)
      THEN Fail("PauseRejected", NoBody) /\ UNCHANGED <<last_error, sleeps>>
      ELSE PausedNextPoll

\* ensure_paused after its pause command returned (lines 253-256).
PauseRequestHandle(res) ==
  IF res.tag = "Err"
    THEN Fail(res.kind, res.body) /\ UNCHANGED <<last_error, sleeps>>
    ELSE PausedNextPoll

\* CloseHandle with main's exit status taken from the close's outcome.
CloseHandle_ExitByClose(res) ==
  /\ UNCHANGED <<last_error, sleeps, attempt, ret>>
  /\ CASE pc = "cleanup_close" ->
            /\ pc' = "compile"
            /\ tp' = "idle"
            /\ cmd' = "none"
            /\ runs' = runs + 1
            /\ doneSteps' = Append(doneSteps, "cleanup")
            /\ UNCHANGED <<error, failedAt, exitCode>>
       [] pc = "close" ->
            /\ UNCHANGED runs
            /\ IF res.tag = "Err"
                 THEN Fail(res.kind, res.body)
                 ELSE /\ pc' = "done"
                      /\ tp' = "idle"
                      /\ cmd' = "none"
                      /\ exitCode' = 0
                      /\ doneSteps' = Append(doneSteps, "close")
                      /\ UNCHANGED <<error, failedAt>>
       [] pc = "main_err" ->
            /\ pc' = "done"
            /\ tp' = "idle"
            /\ cmd' = "none"
            /\ exitCode' = IF res.tag = "Err" THEN 1 ELSE 0
            /\ UNCHANGED <<error, failedAt, runs, doneSteps>>

\* CloseHandle with main leaving through its error exit after run() returned Ok.
CloseHandle_ExitOneOnOk(res) ==
  /\ UNCHANGED <<last_error, sleeps, attempt, ret>>
  /\ CASE pc = "cleanup_close" ->
            /\ pc' = "compile"
            /\ tp' = "idle"
            /\ cmd' = "none"
            /\ runs' = runs + 1
            /\ doneSteps' = Append(doneSteps, "cleanup")
            /\ UNCHANGED <<error, failedAt, exitCode>>
       [] pc = "close" ->
            /\ UNCHANGED runs
            /\ IF res.tag = "Err"
                 THEN Fail(res.kind, res.body)
                 ELSE /\ pc' = "done"
                      /\ tp' = "idle"
                      /\ cmd' = "none"
                      /\ exitCode' = 1
                      /\ doneSteps' = Append(doneSteps, "close")
                      /\ UNCHANGED <<error, failedAt>>
       [] pc = "main_err" ->
            /\ pc' = "done"
            /\ tp' = "idle"
            /\ cmd' = "none"
            /\ exitCode' = 1
            /\ UNCHANGED <<error, failedAt, runs, doneSteps>>

\* close_session's return, as each of its three callers treats it:
\* cleanup_old_state discards it and returns Ok, run() applies `?` and returns
\* Ok to main, main's error branch discards it and exits with status 1.
CloseHandle(res) ==
  /\ UNCHANGED <<last_error, sleeps, attempt, ret>>
  /\ CASE pc = "cleanup_close" ->
            /\ pc' = "compile"
            /\ tp' = "idle"
            /\ cmd' = "none"
            /\ runs' = runs + 1
            /\ doneSteps' = Append(doneSteps, "cleanup")
            /\ UNCHANGED <<error, failedAt, exitCode>>
       [] pc = "close" ->
            /\ UNCHANGED runs
            /\ IF res.tag = "Err"
                 THEN Fail(res.kind, res.body)
                 ELSE /\ pc' = "done"
                      /\ tp' = "idle"
                      /\ cmd' = "none"
                      /\ exitCode' = 0
                      /\ doneSteps' = Append(doneSteps, "close")
                      /\ UNCHANGED <<error, failedAt>>
       [] pc = "main_err" ->
            /\ pc' = "done"
            /\ tp' = "idle"
            /\ cmd' = "none"
            /\ exitCode' = 1
            /\ UNCHANGED <<error, failedAt, runs, doneSteps>>

\* The caller a result of send_socket_command returns to.
Deliver(res) ==
  CASE pc \in RetrySteps -> RetryHandle(res) /\ UNCHANGED runs
    [] pc \in WaitSteps -> WaitHandle(res) /\ UNCHANGED runs
    [] pc = "ensure_paused" /\ cmd = "status" -> PauseCheckHandle(res) /\ UNCHANGED runs
    [] pc = "ensure_paused" /\ cmd = "pause" -> PauseRequestHandle(res) /\ UNCHANGED runs
    [] pc \in CloseSteps -> CloseHandle(res)

----
\* Observers' vocabulary.

\* What each loop waits for, as its contract states it.
LoopGoal(step, command, body) ==
  CASE step \in RetrySteps -> body.ok
    [] step \in WaitSteps -> body.ok /\ body.connected
    [] step = "ensure_paused" /\ command = "status" -> body.ok /\ body.paused
    [] OTHER -> FALSE

\* How a status response reads to ensure_paused's caller.
StatusClass(body) ==
  IF body.ok /\ body.paused /\ ~body.running THEN "paused"
  ELSE IF body.ok /\ body.running /\ ~body.paused THEN "running"
  ELSE IF body.ok /\ body.paused THEN "paused_and_running"
  ELSE IF body.paused THEN "paused_not_ok"
  ELSE "other"

\* What read_line produced, as an observer names it.
ReadClass(o) ==
  IF o.tag = "err" THEN o.kind
  ELSE IF o.tag = "blank" THEN "blank"
  ELSE IF o.body.ok THEN "line_ok" ELSE "line_not_ok"

Logged(event) ==
  IF pc # "ensure_paused" \/ log = <<"overflow">> THEN log
  ELSE IF Len(log) >= MaxLog THEN <<"overflow">>
  ELSE Append(log, event)

----
\* The steps of main and run().

\* fs::remove_file on each path, its Result discarded: a file that exists and can
\* be removed is gone afterwards, every other file is as before.
RemoveFiles(files, paths) == files \ (paths \ locked)

\* CleanupOldState with `?` on each remove_file: a path that is missing or cannot
\* be removed makes cleanup_old_state return Err.
CleanupOldState_Strict ==
  /\ UNCHANGED sideVars
  /\ pc = "cleanup"
  /\ snapshot' = Append(snapshot, fs)
  /\ IF Files \subseteq fs /\ locked = {}
       THEN /\ pc' = "cleanup_close"
            /\ fs' = RemoveFiles(fs, Files)
            /\ daemon' = (daemon /\ SockFile \in fs')
            /\ UNCHANGED <<tp, cmd, attempt, ret, doneSteps, error, failedAt, exitCode>>
       ELSE /\ Fail("RemoveError", NoBody)
            /\ UNCHANGED <<fs, daemon>>
  /\ UNCHANGED <<last_error, locked, srcExists, stream, runs>>
  /\ UNCHANGED loopObs
  /\ UNCHANGED runObs

\* cleanup_old_state lines 104-108; its close_session call follows as
\* CloseSession.  Unlinking the socket file leaves no daemon reachable through it.
CleanupOldState ==
  /\ UNCHANGED sideVars
  /\ pc = "cleanup"
  /\ pc' = "cleanup_close"
  /\ fs' = RemoveFiles(fs, Files)
  /\ daemon' = (daemon /\ SockFile \in fs')
  /\ snapshot' = Append(snapshot, fs)
  /\ UNCHANGED <<tp, cmd, attempt, last_error, ret, doneSteps, error, failedAt, exitCode>>
  /\ UNCHANGED <<locked, srcExists, stream, runs>>
  /\ UNCHANGED loopObs
  /\ UNCHANGED runObs

\* CloseSession without the test of the socket file.
CloseSession_NoExistsTest ==
  /\ UNCHANGED sideVars
  /\ pc \in CloseSteps
  /\ tp = "idle"
  /\ topClose' = IF pc = "main_err" THEN [topClose EXCEPT !.calls = @ + 1] ELSE topClose
  /\ tp' = "call"
  /\ cmd' = "close"
  /\ UNCHANGED <<pc, attempt, last_error, ret, doneSteps, error, failedAt, exitCode>>
  /\ UNCHANGED <<sleeps, runs>>
  /\ UNCHANGED <<calls, pauses, xerrs, hits, lastResp, log>>
  /\ UNCHANGED <<touched, snapshot, stream>>
  /\ UNCHANGED envVars

\* close_session lines 213-219: without the socket file it returns Ok at once,
\* otherwise it calls send_socket_command with the close line.
CloseSession ==
  /\ UNCHANGED sideVars
  /\ pc \in CloseSteps
  /\ tp = "idle"
  /\ topClose' = IF pc = "main_err" THEN [topClose EXCEPT !.calls = @ + 1] ELSE topClose
  /\ IF SockFile \notin fs
       THEN CloseHandle(Ok(NoBody))
       ELSE /\ tp' = "call"
            /\ cmd' = "close"
            /\ UNCHANGED <<pc, attempt, last_error, ret, doneSteps, error, failedAt, exitCode>>
            /\ UNCHANGED <<sleeps, runs>>
  /\ UNCHANGED <<calls, pauses, xerrs, hits, lastResp, log>>
  /\ UNCHANGED <<touched, snapshot, stream>>
  /\ UNCHANGED envVars

\* compile_target: NotFound without the source, else rustc runs and may fail to
\* start, exit non-zero, or succeed.
CompileTarget ==
  /\ UNCHANGED sideVars
  /\ pc = "compile"
  /\ IF ~srcExists
       THEN Fail("NotFound", NoBody)
       ELSE \E rustc \in {"spawn_failed", "exit_nonzero", "exit_zero"} :
              CASE rustc = "spawn_failed" -> Fail("RustcInvokeError", NoBody)
                [] rustc = "exit_nonzero" -> Fail("CompileError", NoBody)
                [] rustc = "exit_zero" ->
                     /\ pc' = NextStep(pc)
                     /\ doneSteps' = Append(doneSteps, pc)
                     /\ UNCHANGED <<tp, cmd, attempt, ret, error, failedAt, exitCode>>
  /\ UNCHANGED <<last_error, stream>>
  /\ UNCHANGED envVars
  /\ UNCHANGED loopObs
  /\ UNCHANGED runObs
  /\ UNCHANGED harnessVars

\* ensure_daemon_running over run_cli: the CLI artifact may be missing, node may
\* fail to start, the CLI may exit non-zero; when it exits zero it may have
\* started a daemon, which creates the socket file and the event store.
EnsureDaemonRunning ==
  /\ UNCHANGED sideVars
  /\ pc = "daemon"
  /\ \E cli \in {"no_artifact", "spawn_failed", "exit_nonzero", "exit_zero", "started"} :
       CASE cli = "no_artifact" ->
              Fail("MissingCliArtifact", NoBody) /\ UNCHANGED <<fs, daemon>>
         [] cli = "spawn_failed" ->
              Fail("CliInvokeError", NoBody) /\ UNCHANGED <<fs, daemon>>
         [] cli = "exit_nonzero" ->
              Fail("DaemonStartError", NoBody) /\ UNCHANGED <<fs, daemon>>
         [] cli = "exit_zero" ->
              /\ pc' = NextStep(pc)
              /\ doneSteps' = Append(doneSteps, pc)
              /\ UNCHANGED <<tp, cmd, attempt, ret, error, failedAt, exitCode>>
              /\ UNCHANGED <<fs, daemon>>
         [] cli = "started" ->
              /\ pc' = NextStep(pc)
              /\ doneSteps' = Append(doneSteps, pc)
              /\ UNCHANGED <<tp, cmd, attempt, ret, error, failedAt, exitCode>>
              /\ fs' = Files
              /\ daemon' = TRUE
  /\ UNCHANGED <<last_error, stream, locked, srcExists>>
  /\ UNCHANGED loopObs
  /\ UNCHANGED runObs
  /\ UNCHANGED harnessVars

\* Entry of run_command_retry, wait_for_status or ensure_paused: the loop
\* variable starts at 1 and the first send_socket_command call is made.
BeginLoop ==
  /\ pc \in LoopSteps
  /\ tp = "idle"
  /\ tp' = "call"
  /\ cmd' = CommandOf(pc)
  /\ attempt' = 1
  /\ last_error' = NoBody
  /\ ret' = NoRet
  /\ calls' = 0 /\ sleeps' = 0 /\ pauses' = 0 /\ xerrs' = 0 /\ hits' = 0
  /\ lastResp' = NoBody
  /\ log' = <<>>
  /\ lastRead' = "none"
  /\ UNCHANGED <<total, esc>>
  /\ UNCHANGED <<pc, error, failedAt, exitCode, stream, doneSteps>>
  /\ UNCHANGED envVars
  /\ UNCHANGED runObs
  /\ UNCHANGED harnessVars

----
\* send_socket_command.

InLoop == pc \in LoopSteps

\* What a call that returns Err leaves behind.
TransportFailed(kind) ==
  /\ xerrs' = IF InLoop THEN xerrs + 1 ELSE xerrs
  /\ topClose' = IF pc = "main_err" THEN [topClose EXCEPT !.errs = @ + 1] ELSE topClose
  /\ Deliver(Err(kind, NoBody))

\* Lines 182-189: UnixStream::connect, then the two timeouts.  Connecting needs
\* the socket file and a daemon accepting on it.
Connecting ==
  /\ tp = "call"
  /\ lastRead' = IF pc = "main_err" THEN lastRead ELSE "none"
  /\ UNCHANGED esc
  /\ calls' = IF InLoop THEN calls + 1 ELSE calls
  /\ pauses' = IF InLoop /\ cmd = "pause" THEN pauses + 1 ELSE pauses
  /\ log' = IF cmd = "pause" THEN Logged("pause") ELSE log
  /\ touched' = touched \cup {StepOf(pc)}
  /\ \E outcome \in IF SockFile \in fs /\ daemon
                      THEN {"connected", "refused", "timeout_not_set"}
                      ELSE {"refused"} :
       CASE outcome = "connected" ->
              /\ tp' = "connected"
              /\ stream' = stream + 1
              /\ UNCHANGED <<pc, cmd, attempt, last_error, ret, doneSteps, error, failedAt, exitCode>>
              /\ UNCHANGED <<sleeps, xerrs, runs, topClose>>
         [] outcome = "refused" ->
              /\ TransportFailed("TransportConnectError")
              /\ UNCHANGED stream
         [] outcome = "timeout_not_set" ->
              /\ TransportFailed("SetTimeoutError")
              /\ UNCHANGED stream
  /\ UNCHANGED <<hits, lastResp, snapshot>>
  /\ UNCHANGED envVars

Connect == Connecting /\ UNCHANGED total

\* Lines 191-193: write_all of the request line.  On Err the stream is dropped.
WriteLine ==
  /\ UNCHANGED sideVars
  /\ tp = "connected"
  /\ \E written \in BOOLEAN :
       IF written
         THEN /\ tp' = "written"
              /\ topClose' = IF pc = "main_err" THEN [topClose EXCEPT !.sent = @ + 1]
                                                ELSE topClose
              /\ UNCHANGED <<pc, cmd, attempt, last_error, ret, doneSteps, error, failedAt, exitCode>>
              /\ UNCHANGED <<sleeps, xerrs, runs, stream>>
         ELSE /\ TransportFailed("TransportWriteError")
              /\ stream' = stream - 1
  /\ UNCHANGED <<calls, pauses, hits, lastResp, log, touched, snapshot>>
  /\ UNCHANGED envVars

\* ReadLine over a stream that outlives the call: the connection is kept open
\* for the next command.
ReadLine_KeepOpen ==
  /\ tp = "written"
  /\ UNCHANGED stream
  /\ UNCHANGED <<total, esc>>
  /\ \E o \in ReadOutcomes :
       LET res == ReadResult(o) IN
       /\ lastRead' = IF pc = "main_err" THEN lastRead ELSE ReadClass(o)
       /\ IF res.tag = "Err"
            THEN /\ TransportFailed(res.kind)
                 /\ UNCHANGED <<hits, lastResp, log>>
            ELSE /\ hits' = IF InLoop /\ LoopGoal(pc, cmd, res.body) THEN hits + 1 ELSE hits
                 /\ lastResp' = IF pc \in RetrySteps THEN res.body ELSE lastResp
                 /\ log' = IF cmd = "status" THEN Logged(StatusClass(res.body)) ELSE log
                 /\ UNCHANGED <<xerrs, topClose>>
                 /\ Deliver(res)
  /\ UNCHANGED <<calls, pauses, touched, snapshot>>
  /\ UNCHANGED envVars

\* Lines 195-210: read_line, the classification of its outcome, and the return
\* to the caller; the reader and its stream are dropped on return.
ReadLine ==
  /\ tp = "written"
  /\ stream' = stream - 1
  /\ UNCHANGED <<total, esc>>
  /\ \E o \in ReadOutcomes :
       LET res == ReadResult(o) IN
       /\ lastRead' = IF pc = "main_err" THEN lastRead ELSE ReadClass(o)
       /\ IF res.tag = "Err"
            THEN /\ TransportFailed(res.kind)
                 /\ UNCHANGED <<hits, lastResp, log>>
            ELSE /\ hits' = IF InLoop /\ LoopGoal(pc, cmd, res.body) THEN hits + 1 ELSE hits
                 /\ lastResp' = IF pc \in RetrySteps THEN res.body ELSE lastResp
                 /\ log' = IF cmd = "status" THEN Logged(StatusClass(res.body)) ELSE log
                 /\ UNCHANGED <<xerrs, topClose>>
                 /\ Deliver(res)
  /\ UNCHANGED <<calls, pauses, touched, snapshot>>
  /\ UNCHANGED envVars

----
\* The driver.

InitObservers ==
  /\ calls = 0 /\ sleeps = 0 /\ pauses = 0 /\ xerrs = 0 /\ hits = 0
  /\ lastResp = NoBody
  /\ log = <<>>
  /\ touched = {}
  /\ topClose = [calls |-> 0, sent |-> 0, errs |-> 0]
  /\ doneSteps = <<>>
  /\ runs = 0
  /\ snapshot = <<>>
  /\ lastRead = "none"
  /\ total = 0

InitControl ==
  /\ pc = "cleanup"
  /\ tp = "idle"
  /\ cmd = "none"
  /\ attempt = 0
  /\ last_error = NoBody
  /\ ret = NoRet
  /\ error = NoError
  /\ failedAt = "none"
  /\ exitCode = -1
  /\ stream = 0

\* main is entered with no stale file or with all four; the socket file possibly
\* not removable; a stale daemon possibly still accepting on it; the target
\* source present or not.
Init ==
  /\ InitControl
  /\ InitObservers
  /\ esc = NoEscape
  /\ fs \in {{}, Files}
  /\ locked \in {{}, {SockFile} \cap fs}
  /\ daemon \in {FALSE, (SockFile \in fs)}
  /\ srcExists \in BOOLEAN

Next ==
  \/ CleanupOldState
  \/ CloseSession
  \/ CompileTarget
  \/ EnsureDaemonRunning
  \/ BeginLoop
  \/ Connect
  \/ WriteLine
  \/ ReadLine

Spec == Init /\ [][Next]_vars

----
\* cleanup_old_state called repeatedly with no daemon present.

\* The caller invokes cleanup_old_state again once it has returned.
CleanupAgain ==
  /\ UNCHANGED sideVars
  /\ pc = "compile"
  /\ runs < MaxRuns
  /\ pc' = "cleanup"
  /\ UNCHANGED <<tp, cmd, attempt, last_error, ret, doneSteps, error, failedAt, exitCode>>
  /\ UNCHANGED <<stream, runs, snapshot>>
  /\ UNCHANGED envVars
  /\ UNCHANGED loopObs
  /\ UNCHANGED runObs

\* Any of the four files may exist, any existing one may be not removable.
InitCleanup ==
  /\ InitControl
  /\ InitObservers
  /\ esc = NoEscape
  /\ fs \in SUBSET Files
  /\ locked \in SUBSET fs
  /\ daemon = FALSE
  /\ srcExists = TRUE

NextCleanup ==
  \/ CleanupOldState
  \/ CloseSession
  \/ Connect
  \/ CleanupAgain

SpecCleanup == InitCleanup /\ [][NextCleanup]_vars

----
\* The driver with every send_socket_command call of the process counted.

\* The most send_socket_command calls one statement of run() can make: its
\* loop bound, twice the bound for ensure_paused (a poll and a pause in every
\* iteration), one for each close_session call, none for compile and daemon start.
Budget(s) ==
  CASE s \in RetrySteps -> COMMAND_RETRY_ATTEMPTS
    [] s \in WaitSteps -> PAUSE_WAIT_POLLS
    [] s = "ensure_paused" -> 2 * PAUSE_WAIT_POLLS
    [] s \in {"cleanup", "close"} -> 1
    [] OTHER -> 0

RECURSIVE BudgetOfFirst(_)
BudgetOfFirst(n) == IF n = 0 THEN 0 ELSE BudgetOfFirst(n - 1) + Budget(RunSteps[n])

\* The most calls the statements before s can have made.
MaxBefore(s) == BudgetOfFirst(StepIndex(s) - 1)

Max(a, b) == IF a >= b THEN a ELSE b

\* total counts every call.  It never counts less than were made: a run that
\* has made fewer calls than MaxBefore + calls - MaxSlack at a call of run() is
\* counted as having made that many, so that the count is exact for every run
\* within MaxSlack calls of the most possible and too high for the others.
ConnectCounted ==
  /\ Connecting
  /\ total' = IF pc \in LoopSteps
                THEN Max(total + 1, MaxBefore(pc) + calls + 1 - MaxSlack)
              ELSE IF pc = "close"
                THEN Max(total + 1, MaxBefore(pc) + 1 - MaxSlack)
                ELSE total + 1

NextBudget ==
  \/ CleanupOldState
  \/ CloseSession
  \/ CompileTarget
  \/ EnsureDaemonRunning
  \/ BeginLoop
  \/ ConnectCounted
  \/ WriteLine
  \/ ReadLine

SpecBudget == Init /\ [][NextBudget]_vars

----
\* json_escape (lines 305-322) and json_attach_lldb, over strings as sequences of
\* Unicode code points.

\* The characters an input is drawn from: '"' 34, '\\' 92, LF 10, CR 13, TAB 9,
\* the controls BS 8 and US 31, DEL 127, the C1 control U+009F 159, and the
\* plain characters '/' 47, 'u' 117, '0' 48.
PathChars == {34, 92, 10, 13, 9, 8, 31, 127, 159, 47, 117, 48}

Inputs == UNION {[1..n -> PathChars] : n \in 0..MaxPathLen}

\* char::is_control: general category Cc, U+0000..U+001F and U+007F..U+009F.
is_control(c) == c \in 0..31 \/ c \in 127..159

\* One lower-case hexadecimal digit.
HexDigit(d) == IF d < 10 THEN 48 + d ELSE 87 + d

\* format!("{:04x}", code): four digits, zero padded, for code below 0x10000.
Hex04(code) ==
  <<HexDigit(code \div 4096), HexDigit((code \div 256) % 16),
    HexDigit((code \div 16) % 16), HexDigit(code % 16)>>

\* json_escape_char leaving the backslash as it is.
json_escape_char_PlainBackslash(ch) ==
  CASE ch = 34 -> <<92, 34>>
    [] ch = 10 -> <<92, 110>>
    [] ch = 13 -> <<92, 114>>
    [] ch = 9 -> <<92, 116>>
    [] OTHER -> IF is_control(ch) THEN <<92, 117>> \o Hex04(ch) ELSE <<ch>>

\* The match of lines 308-319: what one character appends to out.
json_escape_char(ch) ==
  CASE ch = 34 -> <<92, 34>>
    [] ch = 92 -> <<92, 92>>
    [] ch = 10 -> <<92, 110>>
    [] ch = 13 -> <<92, 114>>
    [] ch = 9 -> <<92, 116>>
    [] OTHER -> IF is_control(ch) THEN <<92, 117>> \o Hex04(ch) ELSE <<ch>>

\* The string literal json_attach_lldb builds around json_escape's result.
Quoted(out) == <<34>> \o out \o <<34>>

\* The receiving side: a JSON string literal read by the grammar of RFC 8259.
Invalid == [ok |-> FALSE, chars |-> <<>>]

HexVal(c) ==
  IF c \in 48..57 THEN c - 48
  ELSE IF c \in 97..102 THEN c - 87
  ELSE IF c \in 65..70 THEN c - 55
  ELSE -1

\* The character a two-character escape stands for, -1 if there is none.
SimpleEscape(e) ==
  CASE e = 34 -> 34
    [] e = 92 -> 92
    [] e = 47 -> 47
    [] e = 98 -> 8
    [] e = 102 -> 12
    [] e = 110 -> 10
    [] e = 114 -> 13
    [] e = 116 -> 9
    [] OTHER -> -1

RECURSIVE ParseChars(_, _, _)
ParseChars(text, k, acc) ==
  IF k > Len(text) THEN Invalid
  ELSE LET c == text[k] IN
    IF c = 34 THEN [ok |-> (k = Len(text)), chars |-> acc]
    ELSE IF c < 32 THEN Invalid
    ELSE IF c # 92 THEN ParseChars(text, k + 1, Append(acc, c))
    ELSE IF k + 1 > Len(text) THEN Invalid
    ELSE LET e == text[k + 1] IN
      IF e = 117
        THEN IF k + 5 > Len(text) THEN Invalid
             ELSE LET h == [j \in 1..4 |-> HexVal(text[k + 1 + j])] IN
               IF \E j \in 1..4 : h[j] < 0 THEN Invalid
               ELSE ParseChars(text, k + 6,
                               Append(acc, h[1] * 4096 + h[2] * 256 + h[3] * 16 + h[4]))
        ELSE IF SimpleEscape(e) < 0 THEN Invalid
             ELSE ParseChars(text, k + 2, Append(acc, SimpleEscape(e)))

ParseJsonString(text) ==
  IF Len(text) < 2 \/ text[1] # 34 THEN Invalid ELSE ParseChars(text, 2, <<>>)

\* One iteration of `for ch in input.chars()`.
JsonEscapeChar ==
  /\ esc.phase = "escape"
  /\ esc.i < Len(esc.input)
  /\ esc' = [esc EXCEPT !.i = @ + 1, !.out = @ \o json_escape_char(esc.input[esc.i + 1])]
  /\ UNCHANGED driverVars

\* The loop is over: json_escape returns out, json_attach_lldb quotes it.
JsonEscapeReturn ==
  /\ esc.phase = "escape"
  /\ esc.i = Len(esc.input)
  /\ esc' = [esc EXCEPT !.phase = "sent"]
  /\ UNCHANGED driverVars

\* The receiver parses the literal.
JsonParse ==
  /\ esc.phase = "sent"
  /\ esc' = [esc EXCEPT !.phase = "parsed", !.parsed = ParseJsonString(Quoted(esc.out))]
  /\ UNCHANGED driverVars

\* json_escape is called with any string of at most MaxPathLen characters.
InitEscape ==
  /\ InitControl
  /\ InitObservers
  /\ fs = {} /\ locked = {} /\ daemon = FALSE /\ srcExists = TRUE
  /\ \E input \in Inputs :
       esc = [input |-> input, i |-> 0, out |-> <<>>, parsed |-> Invalid, phase |-> "escape"]

NextEscape ==
  \/ JsonEscapeChar
  \/ JsonEscapeReturn
  \/ JsonParse

SpecEscape == InitEscape /\ [][NextEscape]_vars

----
\* Properties.

IsStatus(event) == event # "pause"
StatusesOf(events) == SelectSeq(events, IsStatus)
Looping(steps) == pc \in steps /\ tp # "idle"
Failed == failedAt # "none"

\* ensure_paused has returned Ok after the status responses running, running,
\* paused, each of them ok.
C1_Scenario ==
  /\ ret.op = "ensure_paused"
  /\ StatusesOf(log) = <<"running", "running", "paused">>

\* C1 as stated: on the status responses [running, running, paused]
\* ensure_paused sends exactly one pause command, between the first and the
\* second poll, and succeeds on the third poll.
C1_OnePauseOnly ==
  C1_Scenario =>
    /\ pauses = 1
    /\ log = <<"running", "pause", "running", "paused">>
    /\ ret.attempt = 3

\* C1 amended: on the status responses [running, running, paused] ensure_paused
\* sends exactly two pause commands, one after each running poll and before the
\* next poll, and succeeds on the third poll, after five transport calls.
C1_PauseAfterEachRunningPoll ==
  C1_Scenario =>
    /\ pauses = 2
    /\ log = <<"running", "pause", "running", "pause", "paused">>
    /\ ret.attempt = 3
    /\ calls = 5
    /\ sleeps = 2

C1_Witness == C1_Scenario /\ pc = "step_over"

\* C2 as stated: when the target source is absent the driver fails at compile
\* with NotFound and no connection was attempted before that failure, whatever
\* the socket file and the daemon were at the start.
C2_NoConnectBeforeNotFound ==
  error.kind = "NotFound" => touched \ {"main_err"} = {}

\* C2 amended: when the target source is absent the driver fails at the compile
\* step with NotFound, having completed cleanup only; compile_target connects to
\* nothing, and the one connection that can precede the failure is the
\* best-effort close of cleanup_old_state, attempted exactly when the socket
\* file is still there after cleanup's removal.
C2_NotFoundAfterCleanupOnly ==
  /\ ~srcExists =>
       /\ pc \in {"cleanup", "cleanup_close", "compile", "main_err", "done"}
       /\ exitCode # 0
       /\ Failed => error.kind = "NotFound"
  /\ error.kind = "NotFound" =>
       /\ ~srcExists
       /\ failedAt = "compile"
       /\ doneSteps = <<"cleanup">>
       /\ touched \ {"main_err"} = IF SockFile \in fs THEN {"cleanup"} ELSE {}

C2_Witness ==
  /\ pc = "main_err"
  /\ error.kind = "NotFound"
  /\ touched = {}
  /\ SockFile \in snapshot[1]

\* C3: a command whose every response lacks the ok marker is sent exactly
\* COMMAND_RETRY_ATTEMPTS times, never more, and run_command_retry then fails
\* with RetryExhausted carrying the body of the last response received.
C3_RetryExhausted ==
  /\ Looping(RetrySteps) => calls <= COMMAND_RETRY_ATTEMPTS
  /\ (Looping(RetrySteps) /\ tp = "call") => calls < COMMAND_RETRY_ATTEMPTS
  /\ (failedAt \in RetrySteps /\ xerrs = 0 /\ hits = 0) => error.kind = "RetryExhausted"
  /\ error.kind = "RetryExhausted" =>
       /\ failedAt \in RetrySteps
       /\ calls = COMMAND_RETRY_ATTEMPTS
       /\ hits = 0
       /\ xerrs = 0
       /\ ~lastResp.ok
       /\ error.body = lastResp

C3_Witness ==
  /\ error.kind = "RetryExhausted"
  /\ failedAt = "attach"
  /\ error.body.connected
  /\ last_error = lastResp

\* C4: run_command_retry returns on the first response carrying the ok marker:
\* success on attempt k has made exactly k transport calls and k - 1 sleeps
\* (one call and no sleep for k = 1), and no ok response is ever passed over.
C4_OkReturnsAtOnce ==
  /\ Looping(RetrySteps) => hits = 0
  /\ ret.op \in RetrySteps =>
       /\ ret.attempt \in 1..COMMAND_RETRY_ATTEMPTS
       /\ calls = ret.attempt
       /\ sleeps = ret.attempt - 1
       /\ hits = 1
       /\ ret.body.ok
       /\ ret.body = lastResp

C4_Witness ==
  /\ ret.op = "attach"
  /\ ret.attempt = 1
  /\ calls = 1
  /\ sleeps = 0

\* C5: a transport-level failure on any attempt of run_command_retry ends it at
\* once with that error: the failing call is its last transport call and no
\* sleep follows it; every retry is preceded by a received not-ok response.
C5_TransportErrorAborts ==
  /\ Looping(RetrySteps) =>
       /\ xerrs = 0
       /\ sleeps = attempt - 1
       /\ (attempt > 1 /\ tp = "call") => (~lastResp.ok /\ last_error = lastResp)
  /\ (failedAt \in RetrySteps /\ xerrs > 0) =>
       /\ error.kind \in TransportKinds
       /\ xerrs = 1
       /\ calls = attempt
       /\ sleeps = attempt - 1

C5_Witness ==
  /\ failedAt = "frames"
  /\ error.kind = "ProtocolEmptyResponse"
  /\ attempt = 2
  /\ calls = 2

\* C6: wait_for_status returns Ok on the first poll k <= PAUSE_WAIT_POLLS whose
\* response carries both the ok marker and connected:true, after exactly k
\* transport calls; a response with only one of the two does not end the wait.
C6_FirstConnectedPoll ==
  /\ Looping(WaitSteps) => hits = 0
  /\ ret.op \in WaitSteps =>
       /\ ret.attempt \in 1..PAUSE_WAIT_POLLS
       /\ calls = ret.attempt
       /\ hits = 1
       /\ ret.body.ok
       /\ ret.body.connected
  /\ (failedAt \in WaitSteps /\ xerrs = 0) =>
       /\ error.kind = "WaitTimeout"
       /\ calls = PAUSE_WAIT_POLLS
       /\ hits = 0

C6_Witness ==
  /\ ret.op = "post_attach"
  /\ ret.attempt = 3
  /\ calls = 3
  /\ sleeps = 2

\* C7: a transport-level failure of a status poll of wait_for_status or
\* ensure_paused, or of ensure_paused's pause command, ends the loop at once
\* with that error: no poll, pause or sleep follows the failing call.
C7_WaitTransportErrorAborts ==
  /\ Looping(WaitSteps \cup {"ensure_paused"}) => xerrs = 0
  /\ (failedAt \in WaitSteps \cup {"ensure_paused"} /\ xerrs > 0) =>
       /\ error.kind \in TransportKinds
       /\ xerrs = 1
       /\ calls - pauses = attempt
       /\ pauses \in (IF failedAt = "ensure_paused" THEN 0..attempt ELSE {0})
       /\ sleeps = attempt - 1

\* The pause command of the second iteration of ensure_paused timed out.
C7_Witness ==
  /\ failedAt = "ensure_paused"
  /\ error.kind = "TransportTimeout"
  /\ attempt = 2
  /\ pauses = 2

\* C8: run() is a strictly linear sequence: a step is in progress only when
\* every earlier step has returned Ok, in order, and once a step has failed
\* nothing but main's close follows: no later step connects to the daemon.
C8_LinearSequence ==
  /\ pc \notin {"main_err", "done"} =>
       /\ ~Failed
       /\ doneSteps = SubSeq(RunSteps, 1, StepIndex(StepOf(pc)) - 1)
       /\ touched \subseteq {RunSteps[i] : i \in 1..StepIndex(StepOf(pc))}
  /\ Failed =>
       /\ pc \in {"main_err", "done"}
       /\ doneSteps = SubSeq(RunSteps, 1, StepIndex(failedAt) - 1)
       /\ touched \ {"main_err"} \subseteq {RunSteps[i] : i \in 1..StepIndex(failedAt)}
  /\ (pc = "done" /\ ~Failed) => doneSteps = RunSteps

C8_Witness ==
  /\ pc = "done"
  /\ failedAt = "ensure_paused"
  /\ "post_attach" \in touched
  /\ "main_err" \in touched

\* C9: whichever step fails, main calls close_session exactly once, silently and
\* ignoring its outcome, and exits with status 1, never stopping short of the
\* exit; the exit status is 0 only when every step of run() returned Ok, and
\* then main closes nothing more.
C9_FailureClosesOnceAndExitsNonZero ==
  /\ topClose.calls <= 1
  /\ topClose.sent <= topClose.calls
  /\ topClose.errs <= topClose.calls
  /\ topClose.calls = 1 => Failed
  /\ pc = "done" =>
       /\ exitCode = (IF Failed THEN 1 ELSE 0)
       /\ topClose.calls = (IF Failed THEN 1 ELSE 0)
       /\ exitCode = 0 => doneSteps = RunSteps
  /\ pc # "done" => exitCode = -1
  /\ pc = "main_err" => ENABLED Next

\* main's close ended in a transport error and the exit status is 1 all the same.
C9_Witness ==
  /\ pc = "done"
  /\ exitCode = 1
  /\ topClose.errs = 1
  /\ failedAt = "trace"

\* C10: with no daemon present cleanup_old_state returns Ok every time it is
\* called, and from the second call on it leaves the filesystem as it found
\* it, the files it targets being absent by then unless they cannot be removed.
C10_CleanupIdempotent ==
  /\ ~Failed
  /\ error = NoError
  /\ pc \in {"cleanup", "cleanup_close", "compile"}
  /\ runs = Len(doneSteps)
  /\ \A i \in 1..Len(doneSteps) : doneSteps[i] = "cleanup"
  /\ (runs >= 2 /\ pc = "compile") =>
       /\ fs = snapshot[runs]
       /\ fs = snapshot[1] \cap locked

\* The second call found all four files gone and returned Ok.
C10_Witness ==
  /\ runs = 2
  /\ pc = "compile"
  /\ snapshot[1] = Files
  /\ snapshot[2] = {}
  /\ fs = {}

\* C11: a threads query answered ok with an empty row list makes run() fail with
\* EmptyResult, and no step after it (pause, step, trace, status) sends anything;
\* the threads step never returns such a response to its caller.  An empty
\* frames result is no failure: the frames step fails only as any retried
\* command does.
C11_EmptyThreadsAborts ==
  /\ ret.op = "threads" => ~no_threads(ret.body)
  /\ error.kind = "EmptyResult" =>
       /\ failedAt = "threads"
       /\ hits = 1
       /\ response_ok(lastResp) /\ no_threads(lastResp)
       /\ pauses = 0
       /\ touched \subseteq {"cleanup", "attach", "post_attach", "frames", "threads", "main_err"}
       /\ doneSteps = SubSeq(RunSteps, 1, StepIndex("frames"))
       /\ pc \in {"main_err", "done"}
  /\ failedAt = "frames" => error.kind \in TransportKinds \cup {"RetryExhausted"}
  /\ (ret.op = "frames" /\ no_threads(ret.body)) => (pc = "threads" /\ ~Failed)

C11_Witness ==
  /\ error.kind = "EmptyResult"
  /\ pc = "done"
  /\ calls = 1
  /\ "frames" \in touched

StreamOpen == tp \in {"connected", "written"}

\* What one step may do to the connection of the call in progress.
ExchangeStep ==
  /\ stream' > stream => (stream = 0 /\ tp = "call" /\ tp' = "connected")
  /\ tp = "call" => (tp' = "connected" \/ stream' = 0)
  /\ tp = "connected" => \/ (tp' = "written" /\ stream' = stream)
                         \/ (stream' = 0 /\ tp' \in {"idle", "call"})
  /\ tp = "written" => (stream' = 0 /\ tp' \in {"idle", "call"})

\* C12: every command gets a connection of its own, opened when its
\* send_socket_command call begins and closed on every way out of that call
\* (connect or timeout setup failed, write failed, read failed or returned): at
\* most one connection is open at any time, none is open between calls, and a
\* connection carries one request and at most one response, never a second
\* request.
C12_OneExchangePerConnection ==
  /\ [](stream = IF StreamOpen THEN 1 ELSE 0)
  /\ [][ExchangeStep]_vars

C12_Witness ==
  /\ stream = 1
  /\ tp = "written"
  /\ pc = "ensure_paused"
  /\ cmd = "pause"
  /\ calls = 2

PollSteps == WaitSteps \cup {"ensure_paused"}

\* C13: a wait loop (wait_for_status, ensure_paused) none of whose status
\* responses meets its condition, and none of whose calls fails in transport,
\* polls exactly PAUSE_WAIT_POLLS times, sleeping after each poll, and then fails
\* with WaitTimeout; no loop ever makes a poll beyond PAUSE_WAIT_POLLS.
C13_ExactlyPollBudget ==
  /\ Looping(PollSteps) =>
       /\ attempt \in 1..PAUSE_WAIT_POLLS
       /\ calls - pauses <= PAUSE_WAIT_POLLS
  /\ (failedAt \in PollSteps /\ xerrs = 0) => error.kind = "WaitTimeout"
  /\ error.kind = "WaitTimeout" =>
       /\ failedAt \in PollSteps
       /\ calls - pauses = PAUSE_WAIT_POLLS
       /\ attempt = PAUSE_WAIT_POLLS
       /\ sleeps = PAUSE_WAIT_POLLS
       /\ hits = 0
       /\ xerrs = 0

C13_Witness ==
  /\ error.kind = "WaitTimeout"
  /\ failedAt = "post_step"
  /\ calls = PAUSE_WAIT_POLLS
  /\ pc = "done"

\* C14: when every step of run() succeeds (compile, daemon start, attach, both
\* connected waits, frames and threads with rows, ensure_paused, step, trace and
\* close) the process ends with exit status 0, no error recorded and main's
\* error branch never entered; an ensure_paused call that polled running, sent
\* one pause and then polled paused is such a successful step.
C14_SuccessExitsZero ==
  /\ Len(doneSteps) = Len(RunSteps) =>
       /\ doneSteps = RunSteps
       /\ pc = "done"
       /\ exitCode = 0
       /\ ~Failed
       /\ error = NoError
       /\ topClose.calls = 0
       /\ stream = 0
  /\ (pc = "done" /\ ~Failed) => Len(doneSteps) = Len(RunSteps)
  /\ (ret.op = "ensure_paused" /\ log = <<"running", "pause", "paused">>) =>
       /\ pc = "step_over"
       /\ ~Failed
       /\ pauses = 1
       /\ ret.attempt = 2
  /\ (ret.op = "threads" /\ ~Failed) => (pc = "ensure_paused" /\ ~no_threads(ret.body))

C14_Witness ==
  /\ pc = "done"
  /\ exitCode = 0
  /\ doneSteps = RunSteps
  /\ {"attach", "post_attach", "frames", "threads", "ensure_paused", "step_over",
      "post_step", "trace", "close"} \subseteq touched
  /\ ret.op = "trace"

\* The steps of run() whose failure comes out of a send_socket_command call.
CallingSteps == LoopSteps \cup {"close"}

\* C15: a read_line error of kind TimedOut or WouldBlock always reaches run()'s
\* caller as TransportTimeout, never as TransportIOError, and a read_line error
\* of any other kind always as TransportIOError; neither error kind arises from
\* anything else.
C15_ReadErrorKinds ==
  /\ (failedAt \in CallingSteps /\ lastRead \in {"TimedOut", "WouldBlock"}) =>
       error.kind = "TransportTimeout"
  /\ (failedAt \in CallingSteps /\ lastRead = "Other") => error.kind = "TransportIOError"
  /\ error.kind = "TransportTimeout" =>
       (failedAt \in CallingSteps /\ lastRead \in {"TimedOut", "WouldBlock"})
  /\ error.kind = "TransportIOError" => (failedAt \in CallingSteps /\ lastRead = "Other")
  /\ (~Failed /\ pc \in CallingSteps /\ tp # "idle") =>
       lastRead \notin {"TimedOut", "WouldBlock", "Other"}

C15_Witness ==
  /\ error.kind = "TransportTimeout"
  /\ lastRead = "WouldBlock"
  /\ failedAt = "post_attach"
  /\ attempt = 2

\* C16: for every input string, reading the literal json_attach_lldb builds from
\* json_escape's result with a JSON string parser succeeds and yields the input
\* exactly, character for character; and the escaped text holds no raw quote,
\* no raw control character and no backslash that does not start an escape.
C16_EscapeRoundTrip ==
  /\ esc.phase = "parsed" =>
       /\ esc.parsed.ok
       /\ esc.parsed.chars = esc.input
  /\ esc.phase \in {"escape", "sent"} => \A k \in 1..Len(esc.out) : esc.out[k] >= 32
  /\ esc.phase = "escape" =>
       ParseJsonString(Quoted(esc.out)) = [ok |-> TRUE, chars |-> SubSeq(esc.input, 1, esc.i)]

C16_Witness ==
  /\ esc.phase = "parsed"
  /\ esc.input = <<92, 34, 31>>
  /\ esc.out = <<92, 92, 92, 34, 92, 117, 48, 48, 49, 102>>
  /\ esc.parsed.chars = esc.input

\* The status responses that carry "status":"paused", with or without the ok
\* marker, and those among them that are ok.
CarriesPaused == {"paused", "paused_and_running", "paused_not_ok"}
OkAndPaused == {"paused", "paused_and_running"}

\* A poll of one of `classes` is the last event of ensure_paused, which
\* returned Ok on it.
SucceedsOnFirst(classes) ==
  log # <<"overflow">> =>
    \A k \in DOMAIN log :
      log[k] \in classes => (k = Len(log) /\ ret.op = "ensure_paused")

\* C17 as stated: ensure_paused succeeds on the first poll whose status response
\* carries status paused, and it sends no pause command on or after that poll.
C17_FirstPausedPoll ==
  /\ SucceedsOnFirst(CarriesPaused)
  /\ ret.op = "ensure_paused" => pauses <= ret.attempt - 1

\* C17 amended: ensure_paused succeeds on the first poll whose status response
\* is ok and carries status paused (a response carrying paused without the ok
\* marker is passed over like any other), and it sends no pause command on or
\* after that poll, also when that response carries running as well.
C17_FirstOkPausedPoll ==
  /\ SucceedsOnFirst(OkAndPaused)
  /\ Looping({"ensure_paused"}) => hits = 0
  /\ failedAt = "ensure_paused" => hits = 0
  /\ ret.op = "ensure_paused" =>
       /\ hits = 1
       /\ pauses <= ret.attempt - 1
       /\ calls = ret.attempt + pauses
       /\ log # <<"overflow">> => log[Len(log)] \in OkAndPaused

C17_Witness ==
  /\ ret.op = "ensure_paused"
  /\ log = <<"paused_not_ok", "running", "pause", "paused_and_running">>
  /\ ret.attempt = 3
  /\ pauses = 1

\* run_command_retry receives a response without the ok marker.
RetryNotOkStep ==
  /\ pc \in RetrySteps
  /\ tp = "written"
  /\ lastRead' = "line_not_ok"

\* C18: in run_command_retry a sleep follows every not-ok response but the one
\* of the final attempt: such a response on attempt k < COMMAND_RETRY_ATTEMPTS
\* is followed by one sleep and attempt k + 1, the one on the final attempt by
\* RetryExhausted with no sleep in between; exhausting the attempts has slept
\* exactly COMMAND_RETRY_ATTEMPTS - 1 times.
C18_SleepBetweenAttemptsOnly ==
  /\ [](error.kind = "RetryExhausted" =>
          (sleeps = COMMAND_RETRY_ATTEMPTS - 1 /\ calls = COMMAND_RETRY_ATTEMPTS))
  /\ [](Looping(RetrySteps) => sleeps = attempt - 1)
  /\ [][RetryNotOkStep =>
          IF attempt < COMMAND_RETRY_ATTEMPTS
            THEN sleeps' = sleeps + 1 /\ attempt' = attempt + 1 /\ tp' = "call" /\ pc' = pc
            ELSE sleeps' = sleeps /\ error'.kind = "RetryExhausted" /\ pc' = "main_err"]_vars

C18_Witness ==
  /\ error.kind = "RetryExhausted"
  /\ failedAt = "step_over"
  /\ sleeps = COMMAND_RETRY_ATTEMPTS - 1
  /\ lastRead = "line_not_ok"
  /\ pc = "main_err"

\* ensure_paused receives the response to its pause command, ok or not.
PauseResponseStep ==
  /\ pc = "ensure_paused"
  /\ cmd = "pause"
  /\ tp = "written"
  /\ lastRead' \in {"line_ok", "line_not_ok"}

\* C19: the response to ensure_paused's pause command gates nothing: with or
\* without the ok marker it is followed by the iteration's sleep and the next
\* status poll (WaitTimeout after the last iteration), so the status polls made
\* up to success or WaitTimeout are one per iteration, as many as if every pause
\* had been accepted.
C19_PauseResponseNotGating ==
  /\ [][PauseResponseStep =>
          /\ sleeps' = sleeps + 1
          /\ calls' = calls /\ pauses' = pauses
          /\ IF attempt < PAUSE_WAIT_POLLS
               THEN /\ pc' = pc /\ tp' = "call" /\ cmd' = "status"
                    /\ attempt' = attempt + 1
                    /\ failedAt' = "none"
               ELSE error'.kind = "WaitTimeout" /\ failedAt' = "ensure_paused"]_vars
  /\ [](Looping({"ensure_paused"}) =>
          calls - pauses = IF tp = "call" /\ cmd = "status" THEN attempt - 1 ELSE attempt)
  /\ [](ret.op = "ensure_paused" => calls - pauses = ret.attempt)
  /\ []((failedAt = "ensure_paused" /\ error.kind = "WaitTimeout") =>
          calls - pauses = PAUSE_WAIT_POLLS)

C19_Witness ==
  /\ pc = "ensure_paused"
  /\ tp = "call"
  /\ cmd = "status"
  /\ attempt = 3
  /\ pauses = 2
  /\ lastRead = "line_not_ok"
  /\ ~Failed

\* How far the process has come: the statement of main / run, then the loop
\* iteration, then the command of the iteration, then the position in the call.
PcIndex ==
  CASE pc = "cleanup" -> 0
    [] pc = "cleanup_close" -> 1
    [] pc = "main_err" -> Len(RunSteps) + 1
    [] pc = "done" -> Len(RunSteps) + 2
    [] OTHER -> StepIndex(pc)

TpIndex ==
  CASE tp = "idle" -> 0
    [] tp = "call" -> 1
    [] tp = "connected" -> 2
    [] tp = "written" -> 3

Progress ==
  PcIndex * (8 * (PAUSE_WAIT_POLLS + 1)) + attempt * 8
    + (IF cmd = "pause" THEN 4 ELSE 0) + TpIndex

\* C20: when every transport call and every external process returns, every
\* run ends, in success or in failure: each step the driver takes brings it
\* strictly further along its statements, it can always take one until it has
\* exited, and it exits with status 0 or 1.  The send_socket_command calls of one
\* process, cleanup's close and main's close after a failure included, number
\* at most 5 * COMMAND_RETRY_ATTEMPTS + 4 * PAUSE_WAIT_POLLS + 3, whatever the
\* daemon answers; up to each statement of run() they number at most the sum of
\* the statements' loop bounds.
C20_TerminatesWithinBudget ==
  /\ [](total <= 5 * COMMAND_RETRY_ATTEMPTS + 4 * PAUSE_WAIT_POLLS + 3)
  /\ [](pc \in LoopSteps \cup {"close"} => total <= MaxBefore(pc) + Budget(pc))
  /\ [](pc # "done" => ENABLED NextBudget)
  /\ [](pc = "done" => (exitCode \in {0, 1} /\ (exitCode = 0 <=> ~Failed)))
  /\ [](Progress <= (Len(RunSteps) + 3) * (8 * (PAUSE_WAIT_POLLS + 1)))
  /\ [][Progress' > Progress]_vars

C20_Witness ==
  /\ pc = "done"
  /\ exitCode = 1
  /\ failedAt = "close"
  /\ total = 5 * COMMAND_RETRY_ATTEMPTS + 4 * PAUSE_WAIT_POLLS + 2
  /\ topClose.calls = 1

====
